---- MODULE Spec2Model ----
(***************************************************************************)
(* Model of src/src/utils.py: the helper functions of the length-of-stay   *)
(* (LoS) workflow.                                                         *)
(*                                                                         *)
(*   risk_score                 LoS -> ordinal risk bucket 1..5            *)
(*   train_test_validate_split  two-stage random split of a dataset        *)
(*   train_and_test_model       fit, predict, clip, score                  *)
(*   train_model                grid-search variant (described by the      *)
(*                              specification only; not in utils.py)       *)
(*                                                                         *)
(* Each function has a specification of its own (SpecRisk, SpecSplit,      *)
(* SpecTrain, SpecTrainModel); the variables of the other functions keep   *)
(* their initial values there.                                             *)
(***************************************************************************)
EXTENDS Integers, Sequences, FiniteSets, TLC

VARIABLES
    \* risk_score: the calls made so far, each [los, ret]
    calls,
    \* train_test_validate_split: arguments, position, locals, result
    X, y, train_size, validate_size, test_size,
    split_pc,
    X_train, X_validate_test, y_train, y_validate_test,
    X_validate, X_test, y_validate, y_test,
    \* train_and_test_model: arguments, the estimator object, locals, result
    estimator, scoring_metric,
    train_pc, model, preds_train, preds_test, raw_train, raw_test,
    \* train_model: arguments, the search controller, locals, result
    search, evaluator, tm_pc, tm_model, tm_preds

riskVars  == <<calls>>
splitVars == <<X, y, train_size, validate_size, test_size, split_pc,
               X_validate_test, y_validate_test, X_validate, y_validate>>
dataVars  == <<X_train, y_train, X_test, y_test>>
trainVars == <<estimator, scoring_metric, train_pc, model,
               preds_train, preds_test, raw_train, raw_test>>
gridVars  == <<search, evaluator, tm_pc, tm_model, tm_preds>>
vars      == <<riskVars, splitVars, dataVars, trainVars, gridVars>>

\* The value of a local that has not been assigned yet.
None == "None"

-----------------------------------------------------------------------------
(* Bounds *)

\* A length of stay is held in units of 1/Scale day (Scale = 100: 6.01 days
\* is 601).
Scale == 100
\* Lengths of stay range over -MaxNegDays .. MaxDay whole days, each with the
\* fractional parts of Fracs.
MaxDay == 17
MaxNegDays == 2
\* risk_score calls per behaviour.
MaxCalls == 2

Fracs == {0, 1, Scale - 1}

LosValues ==
    {d * Scale + f : d \in (0 - MaxNegDays)..MaxDay, f \in Fracs}

-----------------------------------------------------------------------------
(* risk_score *)

\* math.ceil of a value held in units of 1/Scale (rounds towards +infinity,
\* also for negative values).
ceil_truncating(los) ==
    IF los >= 0 THEN los \div Scale ELSE 0 - ((0 - los) \div Scale)

ceil(los) == 0 - ((0 - los) \div Scale)

risk_score_swapped(los) ==
    LET d == ceil(los) IN
    IF d > 15 THEN 5
    ELSE IF d > 13 THEN 3
    ELSE IF d > 10 THEN 4
    ELSE IF d > 6 THEN 2
    ELSE 1

risk_score(los) ==
    LET d == ceil(los) IN
    IF d > 15 THEN 5
    ELSE IF d > 13 THEN 4
    ELSE IF d > 10 THEN 3
    ELSE IF d > 6 THEN 2
    ELSE 1

InitRisk == calls = <<>>

\* One call risk_score(los); the call has no effect but its return value.
RiskScoreCall ==
    /\ Len(calls) < MaxCalls
    /\ \E los \in LosValues :
          calls' = Append(calls, [los |-> los, ret |-> risk_score(los)])
    /\ UNCHANGED <<splitVars, dataVars, trainVars, gridVars>>

-----------------------------------------------------------------------------
(* Datasets *)

\* Rows of the small datasets, and the shifts of the shuffle of a large one.
MaxRows == 5
MaxShift == 2
\* Row counts too large to enumerate every shuffle of.
LargeRowCounts == {100}

\* A feature table is a sequence of rows, a target a sequence of elements;
\* both carry the row's index label (a pandas index), which is what tells two
\* rows with equal contents apart.
Features(n) == [k \in 1..n |-> [idx |-> k, f1 |-> k, f2 |-> k % 2]]
Targets(n)  == [k \in 1..n |-> [idx |-> k, val |-> (k \div 2) % 2]]

\* A fraction num/den, den > 0.  The sizes are drawn from fractions that
\* binary floating point holds exactly (eighths), and for the large dataset
\* also from 0.2 and 0.6, whose products with 100 and with the pool sizes
\* that arise are computed exactly in float arithmetic.
Frac(a, b) == [num |-> a, den |-> b]
BinaryFractions  == {Frac(1, 8), Frac(1, 4), Frac(1, 2)}
DecimalFractions == {Frac(1, 5), Frac(3, 5)}

FracAdd(p, q) == Frac(p.num * q.den + q.num * p.den, p.den * q.den)
FracDiv(p, q) == Frac(p.num * q.den, p.den * q.num)
\* floor(p * n) and ceil(p * n)
FloorMul(p, n) == (p.num * n) \div p.den
CeilMul(p, n)  == 0 - ((0 - (p.num * n)) \div p.den)

-----------------------------------------------------------------------------
(* sklearn.model_selection.train_test_split, as train_test_validate_split  *)
(* calls it: two arrays, float train_size and test_size, shuffle on.       *)

\* The sizes of the two parts, or the ValueError of a size that is not in
\* (0, 1), of sizes that sum to more than 1, or of an empty train part.
validate_shuffle_split(n_samples, test, train) ==
    LET n_test  == CeilMul(test, n_samples)
        n_train == FloorMul(train, n_samples)
    IN  IF \/ n_samples = 0
           \/ test.num <= 0 \/ test.num >= test.den
           \/ train.num <= 0 \/ train.num >= train.den
           \/ FracAdd(train, test).num > FracAdd(train, test).den
           \/ n_train + n_test > n_samples
           \/ n_train = 0
        THEN [ok |-> FALSE, n_train |-> 0, n_test |-> 0]
        ELSE [ok |-> TRUE, n_train |-> n_train, n_test |-> n_test]

\* The permutations the shuffle may produce for n rows: random_state decides
\* which, and any is possible.  The permutations of a large dataset cannot be
\* enumerated; its shuffle ranges over the rotations by 0..MaxShift.
Shuffles(n) ==
    IF n <= MaxRows
    THEN Permutations(1..n)
    ELSE {[i \in 1..n |-> ((i - 1 + s) % n) + 1] : s \in 0..MaxShift}

take(arr, ind) == [i \in 1..Len(ind) |-> arr[ind[i]]]

train_test_split_overlapping(Xa, ya, train, test, permutation) ==
    LET sz == validate_shuffle_split(Len(Xa), test, train)
        ind_test  == [i \in 1..sz.n_test |-> permutation[i]]
        ind_train == [i \in 1..sz.n_train |-> permutation[i]]
    IN  [ok |-> sz.ok /\ Len(Xa) = Len(ya),
         X_train |-> take(Xa, ind_train), X_test |-> take(Xa, ind_test),
         y_train |-> take(ya, ind_train), y_test |-> take(ya, ind_test)]

train_test_split_unpaired(Xa, ya, train, test, permutation) ==
    LET sz == validate_shuffle_split(Len(Xa), test, train)
        ind_test  == [i \in 1..sz.n_test |-> permutation[i]]
        ind_train == [i \in 1..sz.n_train |-> permutation[sz.n_test + i]]
    IN  [ok |-> sz.ok /\ Len(Xa) = Len(ya),
         X_train |-> take(Xa, ind_train), X_test |-> take(Xa, ind_test),
         y_train |-> SubSeq(ya, 1, sz.n_train),
         y_test  |-> SubSeq(ya, sz.n_train + 1, sz.n_train + sz.n_test)]

\* The test part is the first n_test rows of the permutation, the train part
\* the n_train rows after them; every array is indexed by the same rows.
train_test_split(Xa, ya, train, test, permutation) ==
    LET sz == validate_shuffle_split(Len(Xa), test, train)
        ind_test  == [i \in 1..sz.n_test |-> permutation[i]]
        ind_train == [i \in 1..sz.n_train |-> permutation[sz.n_test + i]]
    IN  [ok |-> sz.ok /\ Len(Xa) = Len(ya),
         X_train |-> take(Xa, ind_train), X_test |-> take(Xa, ind_test),
         y_train |-> take(ya, ind_train), y_test |-> take(ya, ind_test)]

-----------------------------------------------------------------------------
(* train_test_validate_split *)

\* The sizes the two calls pass to train_test_split.
first_split_sizes ==
    [train |-> train_size, test |-> FracAdd(validate_size, test_size)]

second_split_sizes_renormalized ==
    [train |-> FracDiv(validate_size, FracAdd(validate_size, test_size)),
     test  |-> FracDiv(test_size, FracAdd(validate_size, test_size))]

second_split_sizes ==
    [train |-> validate_size, test |-> test_size]

InitSplit ==
    /\ \E n \in (1..MaxRows) \cup LargeRowCounts :
          /\ X = Features(n)
          /\ y = Targets(n)
          /\ LET sizes == IF n \in LargeRowCounts
                          THEN BinaryFractions \cup DecimalFractions
                          ELSE BinaryFractions
             IN  /\ train_size \in sizes
                 /\ validate_size \in sizes
                 /\ test_size \in sizes
    /\ split_pc = "start"
    /\ X_train = None /\ y_train = None
    /\ X_validate_test = None /\ y_validate_test = None
    /\ X_validate = None /\ y_validate = None
    /\ X_test = None /\ y_test = None

\* Split data for train/validate+test.
FirstSplit ==
    /\ split_pc = "start"
    /\ \E permutation \in Shuffles(Len(X)) :
          LET r == train_test_split(X, y, first_split_sizes.train,
                                    first_split_sizes.test, permutation)
          IN  /\ r.ok
              /\ X_train' = r.X_train
              /\ X_validate_test' = r.X_test
              /\ y_train' = r.y_train
              /\ y_validate_test' = r.y_test
    /\ split_pc' = "first_split_done"
    /\ UNCHANGED <<X, y, train_size, validate_size, test_size,
                   X_validate, y_validate, X_test, y_test>>
    /\ UNCHANGED <<riskVars, trainVars, gridVars>>

\* The first train_test_split raises; the error propagates to the caller.
FirstSplitRaises ==
    /\ split_pc = "start"
    /\ \E permutation \in Shuffles(Len(X)) :
          ~ train_test_split(X, y, first_split_sizes.train,
                             first_split_sizes.test, permutation).ok
    /\ split_pc' = "ValueError"
    /\ UNCHANGED <<X, y, train_size, validate_size, test_size,
                   X_validate_test, y_validate_test, X_validate, y_validate>>
    /\ UNCHANGED <<riskVars, dataVars, trainVars, gridVars>>

\* Split validate+test to validate + test, and return the six parts.
SecondSplit ==
    /\ split_pc = "first_split_done"
    /\ \E permutation \in Shuffles(Len(X_validate_test)) :
          LET r == train_test_split(X_validate_test, y_validate_test,
                                    second_split_sizes.train,
                                    second_split_sizes.test, permutation)
          IN  /\ r.ok
              /\ X_validate' = r.X_train
              /\ X_test' = r.X_test
              /\ y_validate' = r.y_train
              /\ y_test' = r.y_test
    /\ split_pc' = "returned"
    /\ UNCHANGED <<X, y, train_size, validate_size, test_size,
                   X_train, y_train, X_validate_test, y_validate_test>>
    /\ UNCHANGED <<riskVars, trainVars, gridVars>>

\* The second train_test_split raises; the locals of the call are dropped.
SecondSplitRaises ==
    /\ split_pc = "first_split_done"
    /\ \E permutation \in Shuffles(Len(X_validate_test)) :
          ~ train_test_split(X_validate_test, y_validate_test,
                             second_split_sizes.train,
                             second_split_sizes.test, permutation).ok
    /\ split_pc' = "ValueError"
    /\ X_train' = None /\ y_train' = None
    /\ X_validate_test' = None /\ y_validate_test' = None
    /\ UNCHANGED <<X, y, train_size, validate_size, test_size,
                   X_validate, y_validate, X_test, y_test>>
    /\ UNCHANGED <<riskVars, trainVars, gridVars>>

NextSplit == FirstSplit \/ FirstSplitRaises \/ SecondSplit \/ SecondSplitRaises

-----------------------------------------------------------------------------
(* Collaborators of train_and_test_model: the estimator and the metrics *)

\* Rows of a training or test table, and the largest target value.
MaxTrainRows == 2
MaxLabel == 1

\* Targets of n rows with any values of 0..MaxLabel.
AnyTargets(n) ==
    {[k \in 1..n |-> [idx |-> k, val |-> v[k]]] : v \in [1..n -> 0..MaxLabel]}

values(ya) == [i \in 1..Len(ya) |-> ya[i].val]

\* An estimator with the fit/predict capability pair: a line of fixed slope
\* (its hyperparameter) through the first training sample.  fit changes the
\* object in place and returns it; predict needs a fitted object.  log is
\* the sequence of calls the object has received.  fit, predict and the
\* metrics return normally: a failure of theirs would propagate to the
\* caller from the line that calls them.
Slopes == {0 - 2, 0 - 1, 0, 1}
NewEstimator(slope) ==
    [slope |-> slope, fitted |-> FALSE, intercept_ |-> None, log |-> <<>>]

fit(est, Xa, ya) ==
    [est EXCEPT !.fitted = TRUE,
                !.intercept_ = ya[1].val - est.slope * Xa[1].f1,
                !.log = Append(@, "fit")]

predict(est, Xa) ==
    IF est.fitted
    THEN [i \in 1..Len(Xa) |-> est.slope * Xa[i].f1 + est.intercept_]
    ELSE "NotFittedError"

\* np.clip(a, 0, None): a floor at 0 and no upper bound.
clip_none(a) == a

clip(a) == [i \in 1..Len(a) |-> IF a[i] < 0 THEN 0 ELSE a[i]]

RECURSIVE SumSeq(_)
SumSeq(a) == IF a = <<>> THEN 0 ELSE a[1] + SumSeq(Tail(a))

RECURSIVE SumOver(_, _)
SumOver(S, f) ==
    IF S = {} THEN 0
    ELSE LET c == CHOOSE c \in S : TRUE IN f[c] + SumOver(S \ {c}, f)

RECURSIVE ProdOver(_, _)
ProdOver(S, f) ==
    IF S = {} THEN 1
    ELSE LET c == CHOOSE c \in S : TRUE IN f[c] * ProdOver(S \ {c}, f)

\* mean_squared_error(y_true, y_pred, squared=False): the square root of the
\* mean of the squared errors, held as its radicand num/den.
mean_squared_error(y_true, y_pred) ==
    [kind |-> "sqrt",
     num |-> SumSeq([i \in 1..Len(y_true) |->
                       (y_true[i] - y_pred[i]) * (y_true[i] - y_pred[i])]),
     den |-> Len(y_true)]

\* f1_score(y_true, y_pred, average="weighted"): the F1 of every label,
\* 2tp / (2tp + fp + fn), weighted by the label's count in y_true; held as
\* the exact fraction num/den.
f1_score(y_true, y_pred) ==
    LET n == Len(y_true)
        labels == {y_true[i] : i \in 1..n} \cup {y_pred[i] : i \in 1..n}
        tp == [c \in labels |->
                 Cardinality({i \in 1..n : y_true[i] = c /\ y_pred[i] = c})]
        support == [c \in labels |->
                 Cardinality({i \in 1..n : y_true[i] = c})]
        predicted == [c \in labels |->
                 Cardinality({i \in 1..n : y_pred[i] = c})]
        d == [c \in labels |-> support[c] + predicted[c]]
        term == [c \in labels |->
                 support[c] * 2 * tp[c] * ProdOver(labels \ {c}, d)]
    IN  [kind |-> "ratio",
         num |-> SumOver(labels, term),
         den |-> n * ProdOver(labels, d)]

-----------------------------------------------------------------------------
(* train_and_test_model *)

ScoringMetrics == {"rmse", "f1_weighted", "xyz", "mean_absolute_error"}

\* model[key] = value on a dict
SetItem(dict, key, value) ==
    [k \in DOMAIN dict \cup {key} |-> IF k = key THEN value ELSE dict[k]]

EmptyDict == [k \in {} |-> None]

\* The one estimator object of a call, by reference.
EstimatorRef == "estimator"

InitTrain ==
    /\ \E n \in 1..MaxTrainRows :
          /\ X_train = Features(n)
          /\ y_train \in AnyTargets(n)
    /\ \E n \in 1..MaxTrainRows :
          /\ X_test = Features(n)
          /\ y_test \in AnyTargets(n)
    /\ \E slope \in Slopes : estimator = NewEstimator(slope)
    /\ scoring_metric \in ScoringMetrics
    /\ train_pc = "start"
    /\ model = None
    /\ preds_train = None /\ preds_test = None
    /\ raw_train = None /\ raw_test = None

Fit_on_test_data ==
    /\ train_pc = "start"
    /\ estimator' = fit(estimator, X_test, y_test)
    /\ model' = SetItem(EmptyDict, "model", EstimatorRef)
    /\ train_pc' = "fitted"
    /\ UNCHANGED <<scoring_metric, preds_train, preds_test,
                   raw_train, raw_test>>
    /\ UNCHANGED <<riskVars, splitVars, dataVars, gridVars>>

\* model = {}; model["model"] = estimator.fit(X_train, y_train)
Fit ==
    /\ train_pc = "start"
    /\ estimator' = fit(estimator, X_train, y_train)
    /\ model' = SetItem(EmptyDict, "model", EstimatorRef)
    /\ train_pc' = "fitted"
    /\ UNCHANGED <<scoring_metric, preds_train, preds_test,
                   raw_train, raw_test>>
    /\ UNCHANGED <<riskVars, splitVars, dataVars, gridVars>>

\* preds_train = np.clip(model["model"].predict(X_train), 0, None)
PredictTrain ==
    /\ train_pc = "fitted"
    /\ model["model"] = EstimatorRef
    /\ raw_train' = predict(estimator, X_train)
    /\ preds_train' = clip(raw_train')
    /\ estimator' = [estimator EXCEPT !.log = Append(@, "predict")]
    /\ train_pc' = "predicted_train"
    /\ UNCHANGED <<scoring_metric, model, preds_test, raw_test>>
    /\ UNCHANGED <<riskVars, splitVars, dataVars, gridVars>>

\* preds_test = np.clip(model["model"].predict(X_test), 0, None)
PredictTest ==
    /\ train_pc = "predicted_train"
    /\ model["model"] = EstimatorRef
    /\ raw_test' = predict(estimator, X_test)
    /\ preds_test' = clip(raw_test')
    /\ estimator' = [estimator EXCEPT !.log = Append(@, "predict")]
    /\ train_pc' = "predicted_test"
    /\ UNCHANGED <<scoring_metric, model, preds_train, raw_train>>
    /\ UNCHANGED <<riskVars, splitVars, dataVars, gridVars>>

\* if scoring_metric == "rmse": the two metrics by mean_squared_error.
ScoreRmse ==
    /\ train_pc = "predicted_test"
    /\ scoring_metric = "rmse"
    /\ model' =
         SetItem(SetItem(model,
            "train_metric", mean_squared_error(values(y_train), preds_train)),
            "test_metric", mean_squared_error(values(y_test), preds_test))
    /\ train_pc' = "scored"
    /\ UNCHANGED <<estimator, scoring_metric, preds_train, preds_test,
                   raw_train, raw_test>>
    /\ UNCHANGED <<riskVars, splitVars, dataVars, gridVars>>

\* elif scoring_metric == "f1_weighted": the two metrics by f1_score.
ScoreF1 ==
    /\ train_pc = "predicted_test"
    /\ scoring_metric # "rmse"
    /\ scoring_metric = "f1_weighted"
    /\ model' =
         SetItem(SetItem(model,
            "train_metric", f1_score(values(y_train), preds_train)),
            "test_metric", f1_score(values(y_test), preds_test))
    /\ train_pc' = "scored"
    /\ UNCHANGED <<estimator, scoring_metric, preds_train, preds_test,
                   raw_train, raw_test>>
    /\ UNCHANGED <<riskVars, splitVars, dataVars, gridVars>>

RaiseValueError_falls_through ==
    /\ train_pc = "predicted_test"
    /\ scoring_metric # "rmse"
    /\ scoring_metric # "f1_weighted"
    /\ train_pc' = "scored"
    /\ UNCHANGED <<estimator, scoring_metric, model, preds_train, preds_test,
                   raw_train, raw_test>>
    /\ UNCHANGED <<riskVars, splitVars, dataVars, gridVars>>

RaiseValueError_checked_first ==
    /\ train_pc \in {"start", "predicted_test"}
    /\ scoring_metric # "rmse"
    /\ scoring_metric # "f1_weighted"
    /\ model' = None
    /\ preds_train' = None /\ preds_test' = None
    /\ train_pc' = "ValueError"
    /\ UNCHANGED <<estimator, scoring_metric, raw_train, raw_test>>
    /\ UNCHANGED <<riskVars, splitVars, dataVars, gridVars>>

\* else: raise ValueError("Scoring metric incorrectly specified").  The
\* locals of the call, the partly built dict among them, are dropped.
RaiseValueError ==
    /\ train_pc = "predicted_test"
    /\ scoring_metric # "rmse"
    /\ scoring_metric # "f1_weighted"
    /\ model' = None
    /\ preds_train' = None /\ preds_test' = None
    /\ train_pc' = "ValueError"
    /\ UNCHANGED <<estimator, scoring_metric, raw_train, raw_test>>
    /\ UNCHANGED <<riskVars, splitVars, dataVars, gridVars>>

\* model["scoring_metric"] = scoring_metric; return model
Return ==
    /\ train_pc = "scored"
    /\ model' = SetItem(model, "scoring_metric", scoring_metric)
    /\ train_pc' = "returned"
    /\ UNCHANGED <<estimator, scoring_metric, preds_train, preds_test,
                   raw_train, raw_test>>
    /\ UNCHANGED <<riskVars, splitVars, dataVars, gridVars>>

NextTrain ==
    Fit \/ PredictTrain \/ PredictTest \/ ScoreRmse \/ ScoreF1
        \/ RaiseValueError \/ Return

-----------------------------------------------------------------------------
(* train_model, the grid-search variant.  utils.py does not hold it; it is  *)
(* modelled from its description: run the search, keep the rounded mean and *)
(* standard deviation of the best cross-validation score, re-fit the best   *)
(* estimator on the full training set, predict the training set, clip,     *)
(* compute the selected evaluator rounded to 3 decimals or fail.           *)

Evaluators == {"mean_absolute_error", "f1_weighted", "xyz", "rmse"}

\* Cross-validation scores the search may report, in units of 1/10000.
CvMeans == {0 - 12345, 0 - 5005, 7250}
CvStds  == {150, 1249}

\* a / b rounded to the nearest integer, a tie to the even one (round()).
RoundDiv(a, b) ==
    LET q == a \div b
        r == a - q * b
    IN  IF 2 * r < b THEN q
        ELSE IF 2 * r > b THEN q + 1
        ELSE IF q % 2 = 0 THEN q ELSE q + 1

\* mean_absolute_error(y_true, y_pred) as the fraction num/den.
mean_absolute_error(y_true, y_pred) ==
    [kind |-> "ratio",
     num |-> SumSeq([i \in 1..Len(y_true) |->
                       IF y_true[i] >= y_pred[i] THEN y_true[i] - y_pred[i]
                       ELSE y_pred[i] - y_true[i]]),
     den |-> Len(y_true)]

\* round(m, 3) of a fraction, in thousandths.
round3(m) == RoundDiv(m.num * 1000, m.den)

InitTrainModel ==
    /\ \E n \in 1..MaxTrainRows :
          /\ X_train = Features(n)
          /\ y_train \in AnyTargets(n)
    /\ X_test = None /\ y_test = None
    /\ search = [grid |-> Slopes, fitted |-> FALSE, best_estimator_ |-> None]
    /\ evaluator \in Evaluators
    /\ tm_pc = "start"
    /\ tm_model = None
    /\ tm_preds = None

\* The search runs its k-fold fits over the grid and selects the best
\* configuration by its own scoring rule; the mean and the standard
\* deviation of its score are kept, rounded to 3 and to 2 decimals.
RunSearch ==
    /\ tm_pc = "start"
    /\ \E slope \in search.grid, mean \in CvMeans, std \in CvStds :
          /\ search' = [search EXCEPT !.fitted = TRUE,
                                      !.best_estimator_ = NewEstimator(slope)]
          /\ tm_model' =
               SetItem(SetItem(EmptyDict,
                  "cv_mean", RoundDiv(mean, 10)),
                  "cv_std", RoundDiv(std, 100))
    /\ tm_pc' = "searched"
    /\ UNCHANGED <<evaluator, tm_preds>>
    /\ UNCHANGED <<riskVars, splitVars, dataVars, trainVars>>

\* The best estimator is re-fit on the full training set.
Refit ==
    /\ tm_pc = "searched"
    /\ search' = [search EXCEPT
                    !.best_estimator_ = fit(@, X_train, y_train)]
    /\ tm_model' = SetItem(tm_model, "model", "best_estimator_")
    /\ tm_pc' = "refit"
    /\ UNCHANGED <<evaluator, tm_preds>>
    /\ UNCHANGED <<riskVars, splitVars, dataVars, trainVars>>

\* Predictions on the training set, clipped to non-negative values.
PredictTrainingSet ==
    /\ tm_pc = "refit"
    /\ tm_preds' = clip(predict(search.best_estimator_, X_train))
    /\ search' = [search EXCEPT
                    !.best_estimator_.log = Append(@, "predict")]
    /\ tm_pc' = "predicted"
    /\ UNCHANGED <<evaluator, tm_model>>
    /\ UNCHANGED <<riskVars, splitVars, dataVars, trainVars>>

EvaluateMae ==
    /\ tm_pc = "predicted"
    /\ evaluator = "mean_absolute_error"
    /\ tm_model' = SetItem(tm_model, "mean_absolute_error",
                      round3(mean_absolute_error(values(y_train), tm_preds)))
    /\ tm_pc' = "returned"
    /\ UNCHANGED <<search, evaluator, tm_preds>>
    /\ UNCHANGED <<riskVars, splitVars, dataVars, trainVars>>

EvaluateF1 ==
    /\ tm_pc = "predicted"
    /\ evaluator = "f1_weighted"
    /\ tm_model' = SetItem(tm_model, "f1_weighted",
                      round3(f1_score(values(y_train), tm_preds)))
    /\ tm_pc' = "returned"
    /\ UNCHANGED <<search, evaluator, tm_preds>>
    /\ UNCHANGED <<riskVars, splitVars, dataVars, trainVars>>

EvaluatorRaises_defaults_to_mae ==
    /\ tm_pc = "predicted"
    /\ evaluator \notin {"mean_absolute_error", "f1_weighted"}
    /\ tm_model' = SetItem(tm_model, "mean_absolute_error",
                      round3(mean_absolute_error(values(y_train), tm_preds)))
    /\ tm_pc' = "returned"
    /\ UNCHANGED <<search, evaluator, tm_preds>>
    /\ UNCHANGED <<riskVars, splitVars, dataVars, trainVars>>

\* An unrecognized evaluator fails with the invalid-argument error.
EvaluatorRaises ==
    /\ tm_pc = "predicted"
    /\ evaluator \notin {"mean_absolute_error", "f1_weighted"}
    /\ tm_model' = None
    /\ tm_preds' = None
    /\ tm_pc' = "ValueError"
    /\ UNCHANGED <<search, evaluator>>
    /\ UNCHANGED <<riskVars, splitVars, dataVars, trainVars>>

NextTrainModel ==
    RunSearch \/ Refit \/ PredictTrainingSet \/ EvaluateMae \/ EvaluateF1
        \/ EvaluatorRaises

-----------------------------------------------------------------------------
(* Specifications: one per function *)

IdleRisk == calls = <<>>

IdleSplit ==
    /\ X = None /\ y = None
    /\ train_size = None /\ validate_size = None /\ test_size = None
    /\ split_pc = "idle"
    /\ X_validate_test = None /\ y_validate_test = None
    /\ X_validate = None /\ y_validate = None

IdleData ==
    /\ X_train = None /\ y_train = None
    /\ X_test = None /\ y_test = None

IdleTrain ==
    /\ estimator = None /\ scoring_metric = None
    /\ train_pc = "idle" /\ model = None
    /\ preds_train = None /\ preds_test = None
    /\ raw_train = None /\ raw_test = None

IdleTrainModel ==
    /\ search = None /\ evaluator = None
    /\ tm_pc = "idle" /\ tm_model = None /\ tm_preds = None

InitRiskScore ==
    InitRisk /\ IdleSplit /\ IdleData /\ IdleTrain /\ IdleTrainModel

InitTrainTestValidateSplit ==
    InitSplit /\ IdleRisk /\ IdleTrain /\ IdleTrainModel

InitTrainAndTestModel ==
    InitTrain /\ IdleRisk /\ IdleSplit /\ IdleTrainModel

InitGridSearch ==
    InitTrainModel /\ IdleRisk /\ IdleSplit /\ IdleTrain

SpecRisk == InitRiskScore /\ [][RiskScoreCall]_vars

SpecSplit == InitTrainTestValidateSplit /\ [][NextSplit]_vars

SpecTrain == InitTrainAndTestModel /\ [][NextTrain]_vars

SpecTrainModel == InitGridSearch /\ [][NextTrainModel]_vars

-----------------------------------------------------------------------------
(* Properties of risk_score (under SpecRisk) *)

\* The bucket the thresholds give when read on the length of stay itself.
BucketOf(los) ==
    IF los <= 6 * Scale THEN 1
    ELSE IF los <= 10 * Scale THEN 2
    ELSE IF los <= 13 * Scale THEN 3
    ELSE IF los <= 15 * Scale THEN 4
    ELSE 5

\* C1: for every length of stay, zero and negative ones included,
\* risk_score(los) is 1 for los <= 6, 2 for 6 < los <= 10, 3 for
\* 10 < los <= 13, 4 for 13 < los <= 15 and 5 for los > 15; two values with
\* the same ceiling get the same score; 6.0 gives 1, the next value above 6
\* (6.01) gives 2, 15.0 gives 4 and the next value above 15 (15.01) gives 5.
C1_RiskScoreBuckets ==
    /\ \A i \in 1..Len(calls) : calls[i].ret = BucketOf(calls[i].los)
    /\ \A i, j \in 1..Len(calls) :
          ceil(calls[i].los) = ceil(calls[j].los)
             => calls[i].ret = calls[j].ret
    /\ \A i \in 1..Len(calls) :
          /\ calls[i].los = 6 * Scale => calls[i].ret = 1
          /\ calls[i].los = 6 * Scale + 1 => calls[i].ret = 2
          /\ calls[i].los = 15 * Scale => calls[i].ret = 4
          /\ calls[i].los = 15 * Scale + 1 => calls[i].ret = 5

\* risk_score was called on 6.01 and on a negative value.
C1_Witness ==
    /\ Len(calls) = 2
    /\ calls[1].los = 6 * Scale + 1 /\ calls[1].ret = 2
    /\ calls[2].los < 0 /\ calls[2].ret = 1

\* C2: risk_score is monotonic non-decreasing, and every result is one of
\* 1, 2, 3, 4, 5.
C2_RiskScoreMonotonic ==
    /\ \A i \in 1..Len(calls) : calls[i].ret \in 1..5
    /\ \A i, j \in 1..Len(calls) :
          calls[i].los <= calls[j].los => calls[i].ret <= calls[j].ret

\* Two calls in different buckets, the larger input second.
C2_Witness ==
    /\ Len(calls) = 2
    /\ calls[1].los < calls[2].los
    /\ calls[1].ret = 3 /\ calls[2].ret = 4

-----------------------------------------------------------------------------
(* Properties of train_test_validate_split (under SpecSplit) *)

Indices(arr) == {arr[i].idx : i \in 1..Len(arr)}

\* The call of the example: 100 rows, train 0.6, validate 0.2, test 0.2.
ExampleCall ==
    /\ Len(X) = 100
    /\ train_size = Frac(3, 5)
    /\ validate_size = Frac(1, 5)
    /\ test_size = Frac(1, 5)

C5_PartsDisjoint ==
    split_pc = "returned" =>
       /\ Indices(X_train) \cap Indices(X_validate) = {}
       /\ Indices(X_train) \cap Indices(X_test) = {}
       /\ Indices(X_validate) \cap Indices(X_test) = {}
       /\ Indices(y_train) \cap Indices(y_validate) = {}
       /\ Indices(y_train) \cap Indices(y_test) = {}
       /\ Indices(y_validate) \cap Indices(y_test) = {}
       /\ \A part \in {X_train, X_validate, X_test} :
             \A i \in 1..Len(part) :
                /\ part[i].idx \in 1..Len(X)
                /\ part[i] = X[part[i].idx]

\* A call on a small dataset has returned a train part, a validate part of
\* two rows or more and a test part.
C5_Witness ==
    /\ split_pc = "returned"
    /\ Len(X_train) >= 1 /\ Len(X_validate) >= 2 /\ Len(X_test) >= 1
    /\ Len(X) < 100

Paired(Xp, yp) ==
    /\ Len(Xp) = Len(yp)
    /\ \A i \in 1..Len(Xp) :
          /\ Xp[i].idx = yp[i].idx
          /\ Xp[i].idx \in 1..Len(X)
          /\ Xp[i] = X[Xp[i].idx]
          /\ yp[i] = y[Xp[i].idx]

\* C6: in each part, after either split stage, the feature table and the
\* target have the same length, and the i-th feature row and the i-th target
\* element are the X row and the y element of one row of the input.
C6_RowCorrespondence ==
    /\ split_pc = "first_split_done" =>
          Paired(X_train, y_train) /\ Paired(X_validate_test, y_validate_test)
    /\ split_pc = "returned" =>
          /\ Paired(X_train, y_train)
          /\ Paired(X_validate, y_validate)
          /\ Paired(X_test, y_test)

\* A call has returned a part whose rows are not in the input's order.
C6_Witness ==
    /\ split_pc = "returned"
    /\ Len(X_validate) >= 2
    /\ X_validate[1].idx > X_validate[2].idx
    /\ y_validate[1].val # y_validate[2].val

-----------------------------------------------------------------------------
(* Properties of train_and_test_model (under SpecTrain) *)

Recognized == scoring_metric \in {"rmse", "f1_weighted"}

\* C3: a call with a scoring_metric other than "rmse" and "f1_weighted" ends
\* with the ValueError and returns no result; a call with one of the two
\* never raises it.
C3_UnrecognizedMetricRaises ==
    /\ ~ Recognized => train_pc \notin {"scored", "returned"}
    /\ Recognized => train_pc # "ValueError"
    /\ train_pc = "ValueError" => model = None
    /\ train_pc \notin {"returned", "ValueError"} => ENABLED NextTrain

\* A call with "xyz" has ended with the error.
C3_Witness ==
    /\ train_pc = "ValueError"
    /\ scoring_metric = "xyz"

Floor0(a) == [i \in 1..Len(a) |-> IF a[i] > 0 THEN a[i] ELSE 0]

\* C7: every prediction p is replaced by max(p, 0) before a metric is
\* computed; the train metric is computed on y_train and the clipped train
\* predictions, the test metric on y_test and the clipped test predictions;
\* with "rmse" both metrics are >= 0.
C7_MetricsOnClippedPredictions ==
    /\ train_pc \in {"predicted_test", "scored", "returned"} =>
          /\ preds_train = Floor0(raw_train)
          /\ preds_test = Floor0(raw_test)
    /\ (train_pc \in {"scored", "returned"} /\ scoring_metric = "rmse") =>
          /\ model["train_metric"] =
                mean_squared_error(values(y_train), Floor0(raw_train))
          /\ model["test_metric"] =
                mean_squared_error(values(y_test), Floor0(raw_test))
          /\ \A k \in {"train_metric", "test_metric"} :
                model[k].num >= 0 /\ model[k].den > 0
    /\ (train_pc \in {"scored", "returned"}
           /\ scoring_metric = "f1_weighted") =>
          /\ model["train_metric"] =
                f1_score(values(y_train), Floor0(raw_train))
          /\ model["test_metric"] =
                f1_score(values(y_test), Floor0(raw_test))

\* An "rmse" call has returned after a negative prediction on either table.
C7_Witness ==
    /\ train_pc = "returned"
    /\ scoring_metric = "rmse"
    /\ \E i \in 1..Len(raw_train) : raw_train[i] < 0
    /\ \E i \in 1..Len(raw_test) : raw_test[i] < 0
    /\ \E i \in 1..Len(raw_test) : raw_test[i] > 0

\* C8: a call that returns gives a record with exactly the fields model,
\* train_metric, test_metric and scoring_metric; model is the estimator that
\* fit returned, fitted on (X_train, y_train); scoring_metric is the selector
\* passed in; fit was called once, before the two predict calls, and the
\* predictions are those of the fitted estimator.
C8_ResultRecord ==
    train_pc = "returned" =>
       /\ DOMAIN model =
             {"model", "train_metric", "test_metric", "scoring_metric"}
       /\ model["model"] = EstimatorRef
       /\ model["scoring_metric"] = scoring_metric
       /\ estimator.log = <<"fit", "predict", "predict">>
       /\ estimator.fitted
       /\ estimator.intercept_ =
             fit(NewEstimator(estimator.slope), X_train, y_train).intercept_
       /\ raw_train = predict(estimator, X_train)
       /\ raw_test = predict(estimator, X_test)

\* An "f1_weighted" call has returned.
C8_Witness ==
    /\ train_pc = "returned"
    /\ scoring_metric = "f1_weighted"
    /\ Len(X_train) = 2
    /\ estimator.fitted

\* C10: the selector is checked only after the fit and the two predictions:
\* when the ValueError is raised the estimator is already fitted, both
\* predictions have been made, and the partly built record, which holds only
\* the model field, is dropped.
C10_SelectorCheckedLast ==
    [][(train_pc # "ValueError" /\ train_pc' = "ValueError") =>
          /\ estimator.fitted
          /\ estimator.log = <<"fit", "predict", "predict">>
          /\ train_pc = "predicted_test"
          /\ Len(raw_train) = Len(X_train)
          /\ Len(raw_test) = Len(X_test)
          /\ DOMAIN model = {"model"}
          /\ model' = None
          /\ estimator' = estimator]_vars

\* The error was raised, and the caller's estimator is left fitted.
C10_Witness ==
    /\ train_pc = "ValueError"
    /\ scoring_metric = "mean_absolute_error"
    /\ estimator.fitted
    /\ estimator.log = <<"fit", "predict", "predict">>

-----------------------------------------------------------------------------
(* Property of train_model (under SpecTrainModel) *)

\* C9: train_model fails with the invalid-argument error when its evaluator
\* is neither "mean_absolute_error" nor "f1_weighted", "xyz" for one.
C9_UnrecognizedEvaluatorRaises ==
    /\ evaluator \notin {"mean_absolute_error", "f1_weighted"} =>
          tm_pc # "returned"
    /\ tm_pc = "ValueError" =>
          evaluator \notin {"mean_absolute_error", "f1_weighted"}
    /\ tm_pc \notin {"returned", "ValueError"} => ENABLED NextTrainModel

\* A call with evaluator "xyz" has ended with the error.
C9_Witness ==
    /\ tm_pc = "ValueError"
    /\ evaluator = "xyz"

====
